---- MODULE Spec2Model ----
(***************************************************************************)
(* Model of src/main.js: the Category and Product models, ProductService  *)
(* (the catalog index), ProductRenderer (card markup and container views)  *)
(* and ProductCatalogApp (init / handleError).                             *)
(*                                                                         *)
(* JavaScript values are tagged records, so that a field of a raw record   *)
(* can be absent (undefined), a number or a string.  A string is a         *)
(* sequence of tokens: every markup-significant character, and every       *)
(* character of a string whose length matters, is a token of its own; a    *)
(* fixed literal of the source without markup-significant characters may   *)
(* be written as one token.                                                *)
(*                                                                         *)
(* The fields slug (of Product), image (of Category), creationAt and       *)
(* updatedAt are copied by the constructors and read by no method; they    *)
(* are left out of the records.                                            *)
(***************************************************************************)
EXTENDS Integers, Sequences, FiniteSets, TLC

VARIABLES
    products,    \* ProductService.products: the index, a sequence of Products
    loaded,      \* history: the jsonData of the last loadFromJson that returned,
                 \* and whether it replaced a non-empty index
    ret,         \* the last call: its name, argument, outcome and return value
    container,   \* ProductRenderer.container.innerHTML
    countText,   \* productCountElement.textContent
    pc,          \* position of ProductCatalogApp.init
    error,       \* the exception raised last: caught by init, or leaving it
    logged,      \* what console.error was given
    env,         \* the host: globals and elements it provides
    dataset      \* PRODUCT_DATA, the embedded records

vars == <<products, loaded, ret, container, countText, pc, error, logged, env, dataset>>

----------------------------------------------------------------------------
(* JavaScript values *)

Undefined == [type |-> "undefined", num |-> 0, str |-> <<>>]
Num(n) == [type |-> "number", num |-> n, str |-> <<>>]
Str(s) == [type |-> "string", num |-> 0, str |-> s]

\* ToBoolean: undefined, 0 and '' are falsy
Truthy(v) ==
    CASE v.type = "undefined" -> FALSE
      [] v.type = "number" -> v.num # 0
      [] v.type = "string" -> v.str # <<>>

\* a === b on primitives
StrictEquals(a, b) == a.type = b.type /\ a.num = b.num /\ a.str = b.str

DigitChar == <<"0", "1", "2", "3", "4", "5", "6", "7", "8", "9">>

RECURSIVE Digits(_)
Digits(n) == IF n < 10 THEN <<DigitChar[n + 1]>>
             ELSE Digits(n \div 10) \o <<DigitChar[(n % 10) + 1]>>

\* String(v), as a template literal's ${...} applies it (numbers of the model
\* are non-negative integers)
TemplateString(v) ==
    CASE v.type = "undefined" -> <<"u", "n", "d", "e", "f", "i", "n", "e", "d">>
      [] v.type = "number" -> Digits(v.num)
      [] v.type = "string" -> v.str

\* raw category of a record: absent, or an object with id, name and slug
NoCategory == [type |-> "undefined", id |-> Undefined, name |-> Undefined, slug |-> Undefined]
CategoryData(i, n, s) == [type |-> "object", id |-> i, name |-> n, slug |-> s]

\* raw images of a record: absent, or an array
NoImages == [type |-> "undefined", items |-> <<>>]
Images(xs) == [type |-> "array", items |-> xs]

----------------------------------------------------------------------------
(* Category and Product *)

\* new Category(data) reads data.id of an absent data: TypeError
CategoryThrows(data) == data.type = "undefined"

Category(data) == [id |-> data.id, name |-> data.name, slug |-> data.slug]

getDisplayName(category) ==
    IF Truthy(category.name) THEN category.name ELSE Str(<<"Uncategorized">>)

ProductThrowsOnAnyMissing(data) ==
    \/ CategoryThrows(data.category)
    \/ data.id.type = "undefined"
    \/ data.title.type = "undefined"
    \/ data.price.type = "undefined"

ProductThrows(data) == CategoryThrows(data.category)

\* this.images = data.images || []   (an array, even an empty one, is truthy)
Product(data) ==
    [id |-> data.id,
     title |-> data.title,
     price |-> data.price,
     description |-> data.description,
     category |-> Category(data.category),
     images |-> IF data.images.type = "array" THEN data.images.items ELSE <<>>]

PlaceholderImage == Str(<<"https://placehold.co/600x400?text=No+Image">>)

getPrimaryImageNoFallback(product) ==
    IF Len(product.images) > 0 THEN product.images[1] ELSE PlaceholderImage

\* this.images[0] || placeholder   (images[0] of an empty array is undefined)
getPrimaryImage(product) ==
    LET first == IF Len(product.images) > 0 THEN product.images[1] ELSE Undefined
    IN  IF Truthy(first) THEN first ELSE PlaceholderImage

NoDescription == Str(<<"No description available">>)
Ellipsis == <<".", ".", ".">>
DefaultMaxLength == 100

\* a truthy description that is no string has no length that compares and no
\* substring method: TypeError
getShortDescriptionThrows(product) ==
    Truthy(product.description) /\ product.description.type # "string"

getShortDescriptionStrict(product, maxLength) ==
    IF ~Truthy(product.description) THEN NoDescription
    ELSE IF Len(product.description.str) < maxLength THEN product.description
    ELSE Str(SubSeq(product.description.str, 1, maxLength) \o Ellipsis)

getShortDescription(product, maxLength) ==
    IF ~Truthy(product.description) THEN NoDescription
    ELSE IF Len(product.description.str) <= maxLength THEN product.description
    ELSE Str(SubSeq(product.description.str, 1, maxLength) \o Ellipsis)

NBSP == " "

\* Intl.NumberFormat('vi-VN', {style: 'currency', currency: 'USD'}).format:
\* the number with two decimals, a no-break space and the currency; NaN for
\* what is no number
getFormattedPrice(product) ==
    IF product.price.type = "number"
    THEN Digits(product.price.num) \o <<",", "0", "0", NBSP, "U", "S", "$">>
    ELSE <<"N", "a", "N", NBSP, "U", "S", "$">>

----------------------------------------------------------------------------
(* ProductService *)

LoadThrows(jsonData) == \E i \in 1..Len(jsonData) : ProductThrows(jsonData[i])

MapProducts(jsonData) == [i \in 1..Len(jsonData) |-> Product(jsonData[i])]

findByIdLastMatch(ps, id) ==
    LET hits == {i \in 1..Len(ps) : StrictEquals(ps[i].id, id)}
    IN  IF hits = {} THEN Undefined
        ELSE ps[CHOOSE i \in hits : \A j \in hits : i >= j]

\* Array.prototype.find: the first element that satisfies, else undefined
findByIdResult(ps, id) ==
    LET hits == {i \in 1..Len(ps) : StrictEquals(ps[i].id, id)}
    IN  IF hits = {} THEN Undefined
        ELSE ps[CHOOSE i \in hits : \A j \in hits : i <= j]

RECURSIVE filterByCategoryReversed(_, _)
filterByCategoryReversed(ps, categorySlug) ==
    IF ps = <<>> THEN <<>>
    ELSE LET rest == filterByCategoryReversed(Tail(ps), categorySlug)
         IN  IF StrictEquals(Head(ps).category.slug, categorySlug)
             THEN rest \o <<Head(ps)>>
             ELSE rest

RECURSIVE filterByCategoryResult(_, _)
filterByCategoryResult(ps, categorySlug) ==
    IF ps = <<>> THEN <<>>
    ELSE LET rest == filterByCategoryResult(Tail(ps), categorySlug)
         IN  IF StrictEquals(Head(ps).category.slug, categorySlug)
             THEN <<Head(ps)>> \o rest
             ELSE rest

\* Map.set on a key already present keeps its position and replaces its value
RECURSIVE categoryMapOverwriting(_, _)
categoryMapOverwriting(ps, categoryMap) ==
    IF ps = <<>> THEN categoryMap
    ELSE LET c == Head(ps).category
             has == \E k \in 1..Len(categoryMap) : StrictEquals(categoryMap[k].id, c.id)
         IN  categoryMapOverwriting(Tail(ps),
                 IF has
                 THEN [k \in 1..Len(categoryMap) |->
                          IF StrictEquals(categoryMap[k].id, c.id) THEN c ELSE categoryMap[k]]
                 ELSE Append(categoryMap, c))

\* the forEach over products: categoryMap keeps insertion order; a key
\* already present is not set again
RECURSIVE categoryMapAfter(_, _)
categoryMapAfter(ps, categoryMap) ==
    IF ps = <<>> THEN categoryMap
    ELSE LET c == Head(ps).category
             has == \E k \in 1..Len(categoryMap) : StrictEquals(categoryMap[k].id, c.id)
         IN  categoryMapAfter(Tail(ps), IF has THEN categoryMap ELSE Append(categoryMap, c))

getUniqueCategoriesResult(ps) == categoryMapAfter(ps, <<>>)

----------------------------------------------------------------------------
(* ProductRenderer: markup *)

\* the serialisation of a text node (div.textContent = str; div.innerHTML):
\* &, <, > and the no-break space become character references; a double
\* quote is serialised as itself
EscapeChar(c) ==
    CASE c = "&" -> <<"&", "a", "m", "p", ";">>
      [] c = "<" -> <<"&", "l", "t", ";">>
      [] c = ">" -> <<"&", "g", "t", ";">>
      [] c = NBSP -> <<"&", "n", "b", "s", "p", ";">>
      [] OTHER -> <<c>>

RECURSIVE EscapeText(_)
EscapeText(s) == IF s = <<>> THEN <<>> ELSE EscapeChar(Head(s)) \o EscapeText(Tail(s))

\* if (!str) return ''; otherwise the text node holds String(str)
escapeHtml(v) == IF ~Truthy(v) THEN <<>> ELSE EscapeText(TemplateString(v))

createProductCardHtmlThrows(product) == getShortDescriptionThrows(product)

\* the template literal: fixed markup with eight holes, in source order
createProductCardHtml(product) ==
    [productId |-> TemplateString(product.id),
     src |-> escapeHtml(getPrimaryImage(product)),
     alt |-> escapeHtml(product.title),
     category |-> escapeHtml(getDisplayName(product.category)),
     title |-> escapeHtml(product.title),
     description |-> escapeHtml(getShortDescription(product, DefaultMaxLength)),
     price |-> getFormattedPrice(product),
     idText |-> TemplateString(product.id)]

renderProductsThrows(ps) == \E i \in 1..Len(ps) : createProductCardHtmlThrows(ps[i])

renderProductsViewReversed(ps) ==
    IF Len(ps) = 0
    THEN [view |-> "Empty", cards |-> <<>>, message |-> <<"Không có sản phẩm nào">>]
    ELSE [view |-> "Populated",
          cards |-> [i \in 1..Len(ps) |-> createProductCardHtml(ps[Len(ps) + 1 - i])],
          message |-> <<>>]

\* container.innerHTML after renderProducts: the fixed message for an empty
\* sequence, else the cards joined in order, in one assignment
renderProductsView(ps) ==
    IF Len(ps) = 0
    THEN [view |-> "Empty", cards |-> <<>>, message |-> <<"Không có sản phẩm nào">>]
    ELSE [view |-> "Populated",
          cards |-> [i \in 1..Len(ps) |-> createProductCardHtml(ps[i])],
          message |-> <<>>]

showLoadingView == [view |-> "Loading", cards |-> <<>>, message |-> <<>>]

showErrorView(message) == [view |-> "Error", cards |-> <<>>, message |-> escapeHtml(message)]

----------------------------------------------------------------------------
(* ProductCatalogApp *)

ErrorMessage == Str(<<"Có lỗi xảy ra khi tải dữ liệu sản phẩm">>)

\* `${count} sản phẩm`
productCountText(count) == Digits(count) \o <<" sản phẩm">>

\* typeof console !== 'undefined' && process?.env?.NODE_ENV !== 'production':
\* with console defined, process is evaluated; an undeclared identifier is a
\* ReferenceError, which ?. does not guard
handleErrorThrows(e) == e.hasConsole /\ ~e.hasProcess

handleErrorLogs(e) == e.hasConsole /\ e.hasProcess /\ ~e.production

----------------------------------------------------------------------------
(* How an HTML parser reads the text placed in a hole of the template *)

Quote == "\""
Letters == {"a", "b", "i", "u"}

StartsWith(s, p) == Len(s) >= Len(p) /\ SubSeq(s, 1, Len(p)) = p
Drop(s, n) == SubSeq(s, n + 1, Len(s))

\* character references are replaced by the characters they name
RECURSIVE DecodeText(_)
DecodeText(s) ==
    IF s = <<>> THEN <<>>
    ELSE IF StartsWith(s, <<"&", "a", "m", "p", ";">>) THEN <<"&">> \o DecodeText(Drop(s, 5))
    ELSE IF StartsWith(s, <<"&", "l", "t", ";">>) THEN <<"<">> \o DecodeText(Drop(s, 4))
    ELSE IF StartsWith(s, <<"&", "g", "t", ";">>) THEN <<">">> \o DecodeText(Drop(s, 4))
    ELSE IF StartsWith(s, <<"&", "q", "u", "o", "t", ";">>) THEN <<Quote>> \o DecodeText(Drop(s, 6))
    ELSE IF StartsWith(s, <<"&", "n", "b", "s", "p", ";">>) THEN <<NBSP>> \o DecodeText(Drop(s, 6))
    ELSE <<Head(s)>> \o DecodeText(Tail(s))

\* a double-quoted attribute value ends at the first double quote
ClosesAttribute(s) == \E i \in 1..Len(s) : s[i] = Quote

\* in element content a tag opens at "<" followed by a letter, "/" or "!"
OpensTag(s) == \E i \in 1..(Len(s) - 1) : s[i] = "<" /\ s[i + 1] \in (Letters \cup {"/", "!"})

\* the hole holds text as an attribute value / as element content, and the
\* parser reads back exactly text
LiteralInAttribute(hole, text) == ~ClosesAttribute(hole) /\ DecodeText(hole) = text
LiteralInContent(hole, text) == ~OpensTag(hole) /\ DecodeText(hole) = text

----------------------------------------------------------------------------
(* Inputs *)

MaxLen == 3          \* records in one jsonData of the index specification
MaxLoadLen == 2      \* records in one jsonData of the load specification

SeqsUpTo(S, n) == UNION {[1..k -> S] : k \in 0..n}

Cat9A == CategoryData(Num(9), Str(<<"A">>), Str(<<"s9">>))
Cat9B == CategoryData(Num(9), Str(<<"B">>), Str(<<"s9">>))
Cat4 == CategoryData(Num(4), Str(<<"C">>), Str(<<"s4">>))

Record(id, category) ==
    [id |-> id, title |-> Str(<<"a">>), price |-> Num(5),
     description |-> Str(<<"a", "b">>), category |-> category,
     images |-> Images(<<Str(<<"u">>)>>)]

\* well-formed records: ids 1, 2, 3 with category ids 9, 9, 4, and a second
\* record of id 1
IndexRecords ==
    {Record(Num(1), Cat9A), Record(Num(2), Cat9B), Record(Num(3), Cat4),
     Record(Num(1), Cat4)}

\* records that lack one required field
MalformedRecords ==
    {[Record(Num(1), Cat9A) EXCEPT !.id = Undefined],
     [Record(Num(1), Cat9A) EXCEPT !.title = Undefined],
     [Record(Num(1), Cat9A) EXCEPT !.price = Undefined],
     Record(Num(1), NoCategory)}

IndexInputs == SeqsUpTo(IndexRecords, MaxLen)
LoadInputs == SeqsUpTo({Record(Num(2), Cat4)} \cup MalformedRecords, MaxLoadLen)

IdArgs == {Num(1), Num(2), Num(3), Num(7), Undefined}
SlugArgs == {Str(<<"s9">>), Str(<<"s4">>), Str(<<"s0">>)}

MaxImages == 2       \* elements of an images array
MaxDescLen == 3      \* characters of a description
MaxMaxLength == 4    \* the maxLength argument
MaxTitleLen == 2     \* characters of a title

ImageInputs ==
    {NoImages} \cup
    {Images(xs) : xs \in SeqsUpTo({Str(<<"u">>), Str(<<"v">>), Str(<<>>)}, MaxImages)}

DescriptionInputs ==
    {Undefined, Num(0), Num(5)} \cup {Str(d) : d \in SeqsUpTo({"a", "b"}, MaxDescLen)}

LongDescription == Str([i \in 1..(DefaultMaxLength + 1) |-> IF i % 2 = 1 THEN "a" ELSE "b"])

TitleInputs ==
    {Undefined, Str(<<"&", "l", "t", ";">>)} \cup
    {Str(t) : t \in SeqsUpTo({"a", "<", ">", "&", Quote}, MaxTitleLen)}

IdInputs ==
    {Num(1), Num(160), Undefined, Str(<<"<", "b", ">">>), Str(<<Quote, ">", "<", "i", ">">>)}

ImageRecords == {[Record(Num(1), Cat9A) EXCEPT !.images = x] : x \in ImageInputs}

DescriptionRecords == {[Record(Num(1), Cat9A) EXCEPT !.description = d] : d \in DescriptionInputs}

CardRecords ==
    {[Record(i, Cat9A) EXCEPT !.title = t] : i \in IdInputs, t \in TitleInputs}
    \cup {[Record(Num(1), Cat9A) EXCEPT !.description = d] :
              d \in {LongDescription, Undefined, Num(5), Str(<<"<", "b", ">", "&">>)}}
    \cup {[Record(Num(1), Cat9A) EXCEPT !.images = x] :
              x \in {NoImages, Images(<<Str(<<"u", "&", "v">>)>>), Images(<<Str(<<"u", Quote, "v">>)>>)}}
    \cup {Record(Num(1), CategoryData(Num(9), n, Str(<<"s9">>))) :
              n \in {Undefined, Str(<<>>), Str(<<"<", "b", ">">>)}}
    \cup {[Record(Num(1), Cat9A) EXCEPT !.price = p] : p \in {Num(0), Num(80000), Undefined}}

----------------------------------------------------------------------------
(* State *)

NoCall == [op |-> "none", arg |-> Undefined, threw |-> "none", value |-> Undefined]
Returned(op, arg, value) == [op |-> op, arg |-> arg, threw |-> "none", value |-> value]
Threw(op, arg, e) == [op |-> op, arg |-> arg, threw |-> e, value |-> Undefined]

\* the container and the count readout as the page delivers them
InitialView == [view |-> "Initial", cards |-> <<>>, message |-> <<>>]
InitialCountText == <<"-">>

NoError == [name |-> "none", by |-> "none"]
Raised(name, by) == [name |-> name, by |-> by]

\* a browser: the elements and console exist, no global named process
DefaultEnv ==
    [hasContainer |-> TRUE, hasCountElement |-> TRUE, hasConsole |-> TRUE,
     hasProcess |-> FALSE, production |-> FALSE]

\* new ProductService(): products = []
Init ==
    /\ products = <<>>
    /\ loaded = [jsonData |-> <<>>, replaced |-> FALSE]
    /\ ret = NoCall
    /\ container = InitialView
    /\ countText = InitialCountText
    /\ pc = "loaded"
    /\ error = NoError
    /\ logged = <<>>
    /\ env = DefaultEnv
    /\ dataset = <<>>

----------------------------------------------------------------------------
(* ProductService: calls *)

loadFromJsonAppending(old, jsonData) == old \o MapProducts(jsonData)

\* this.products = jsonData.map(item => new Product(item))
loadFromJsonProducts(old, jsonData) == MapProducts(jsonData)

\* the Products built before the item that throws
BuiltBeforeThrow(jsonData) ==
    LET bad == CHOOSE i \in 1..Len(jsonData) :
                   /\ ProductThrows(jsonData[i])
                   /\ \A j \in 1..(i - 1) : ~ProductThrows(jsonData[j])
    IN  MapProducts(SubSeq(jsonData, 1, bad - 1))

\* products pushed one by one into this.products, emptied first
LoadFromJsonPushing(jsonData) ==
    /\ IF LoadThrows(jsonData)
       THEN /\ ret' = Threw("loadFromJson", jsonData, "TypeError")
            /\ products' = BuiltBeforeThrow(jsonData)
            /\ UNCHANGED loaded
       ELSE /\ products' = loadFromJsonProducts(products, jsonData)
            /\ loaded' = [jsonData |-> jsonData, replaced |-> products # <<>>]
            /\ ret' = Returned("loadFromJson", jsonData, products')
    /\ UNCHANGED <<container, countText, pc, error, logged, env, dataset>>

\* an item whose Product cannot be built makes map throw before the
\* assignment to this.products
LoadFromJson(jsonData) ==
    /\ IF LoadThrows(jsonData)
       THEN /\ ret' = Threw("loadFromJson", jsonData, "TypeError")
            /\ UNCHANGED <<products, loaded>>
       ELSE /\ products' = loadFromJsonProducts(products, jsonData)
            /\ loaded' = [jsonData |-> jsonData, replaced |-> products # <<>>]
            /\ ret' = Returned("loadFromJson", jsonData, products')
    /\ UNCHANGED <<container, countText, pc, error, logged, env, dataset>>

GetAllProducts ==
    /\ ret' = Returned("getAllProducts", Undefined, products)
    /\ UNCHANGED <<products, loaded, container, countText, pc, error, logged, env, dataset>>

GetProductCount ==
    /\ ret' = Returned("getProductCount", Undefined, Len(products))
    /\ UNCHANGED <<products, loaded, container, countText, pc, error, logged, env, dataset>>

FindById(id) ==
    /\ ret' = Returned("findById", id, findByIdResult(products, id))
    /\ UNCHANGED <<products, loaded, container, countText, pc, error, logged, env, dataset>>

FilterByCategory(categorySlug) ==
    /\ ret' = Returned("filterByCategory", categorySlug, filterByCategoryResult(products, categorySlug))
    /\ UNCHANGED <<products, loaded, container, countText, pc, error, logged, env, dataset>>

GetUniqueCategories ==
    /\ ret' = Returned("getUniqueCategories", Undefined, getUniqueCategoriesResult(products))
    /\ UNCHANGED <<products, loaded, container, countText, pc, error, logged, env, dataset>>

Queries ==
    \/ GetAllProducts
    \/ GetProductCount
    \/ \E id \in IdArgs : FindById(id)
    \/ \E categorySlug \in SlugArgs : FilterByCategory(categorySlug)
    \/ GetUniqueCategories

----------------------------------------------------------------------------
(* Product and ProductRenderer: calls on a Product built from data *)

GetPrimaryImage(data) ==
    /\ ret' = Returned("getPrimaryImage", data, getPrimaryImage(Product(data)))
    /\ UNCHANGED <<products, loaded, container, countText, pc, error, logged, env, dataset>>

GetShortDescription(data, maxLength) ==
    /\ ret' = IF getShortDescriptionThrows(Product(data))
              THEN Threw("getShortDescription", [data |-> data, maxLength |-> maxLength], "TypeError")
              ELSE Returned("getShortDescription", [data |-> data, maxLength |-> maxLength],
                            getShortDescription(Product(data), maxLength))
    /\ UNCHANGED <<products, loaded, container, countText, pc, error, logged, env, dataset>>

CreateProductCardHtml(data) ==
    /\ ret' = IF createProductCardHtmlThrows(Product(data))
              THEN Threw("createProductCardHtml", data, "TypeError")
              ELSE Returned("createProductCardHtml", data, createProductCardHtml(Product(data)))
    /\ UNCHANGED <<products, loaded, container, countText, pc, error, logged, env, dataset>>

NextProduct ==
    \/ \E data \in ImageRecords : GetPrimaryImage(data)
    \/ \E data \in DescriptionRecords, maxLength \in 0..MaxMaxLength :
           GetShortDescription(data, maxLength)
    \/ \E data \in CardRecords : CreateProductCardHtml(data)

SpecProduct == Init /\ [][NextProduct]_vars

----------------------------------------------------------------------------
(* The DOMContentLoaded handler: new ProductCatalogApp(), then init(), one
   statement at a time *)

NewProductCatalogAppUnchecked ==
    /\ pc = "loaded"
    /\ pc' = "showLoading"
    /\ products' = <<>>
    /\ UNCHANGED <<loaded, ret, container, countText, error, logged, env, dataset>>

\* new ProductRenderer('productGrid') throws when the element is missing
NewProductCatalogApp ==
    /\ pc = "loaded"
    /\ IF env.hasContainer
       THEN /\ pc' = "showLoading"
            /\ UNCHANGED error
       ELSE /\ pc' = "uncaught"
            /\ error' = Raised("Error", "ProductRenderer")
    /\ products' = <<>>
    /\ UNCHANGED <<loaded, ret, container, countText, logged, env, dataset>>

InitShowLoading ==
    /\ pc = "showLoading"
    /\ container' = showLoadingView
    /\ pc' = "loadFromJson"
    /\ UNCHANGED <<products, loaded, ret, countText, error, logged, env, dataset>>

InitLoadFromJson ==
    /\ pc = "loadFromJson"
    /\ IF LoadThrows(dataset)
       THEN /\ error' = Raised("TypeError", "loadFromJson")
            /\ pc' = "catch"
            /\ UNCHANGED <<products, loaded>>
       ELSE /\ products' = loadFromJsonProducts(products, dataset)
            /\ loaded' = [jsonData |-> dataset, replaced |-> products # <<>>]
            /\ pc' = "updateProductCount"
            /\ UNCHANGED error
    /\ UNCHANGED <<ret, container, countText, logged, env, dataset>>

InitUpdateProductCount ==
    /\ pc = "updateProductCount"
    /\ countText' = IF env.hasCountElement THEN productCountText(Len(products)) ELSE countText
    /\ pc' = "renderProducts"
    /\ UNCHANGED <<products, loaded, ret, container, error, logged, env, dataset>>

InitRenderProducts ==
    /\ pc = "renderProducts"
    /\ IF renderProductsThrows(products)
       THEN /\ error' = Raised("TypeError", "renderProducts")
            /\ pc' = "catch"
            /\ UNCHANGED container
       ELSE /\ container' = renderProductsView(products)
            /\ pc' = "returned"
            /\ UNCHANGED error
    /\ UNCHANGED <<products, loaded, ret, countText, logged, env, dataset>>

\* the logging condition evaluated before showError
InitHandleErrorLogFirst ==
    /\ pc = "catch"
    /\ IF handleErrorThrows(env)
       THEN /\ error' = Raised("ReferenceError", "handleError")
            /\ pc' = "threw"
            /\ UNCHANGED <<logged, container>>
       ELSE /\ logged' = IF handleErrorLogs(env) THEN Append(logged, error) ELSE logged
            /\ container' = showErrorView(ErrorMessage)
            /\ pc' = "returned"
            /\ UNCHANGED error
    /\ UNCHANGED <<products, loaded, ret, countText, env, dataset>>

\* catch (error) { this.handleError(error) }: showError, then the logging
\* condition, which may itself throw out of init
InitHandleError ==
    /\ pc = "catch"
    /\ container' = showErrorView(ErrorMessage)
    /\ IF handleErrorThrows(env)
       THEN /\ error' = Raised("ReferenceError", "handleError")
            /\ pc' = "threw"
            /\ UNCHANGED logged
       ELSE /\ logged' = IF handleErrorLogs(env) THEN Append(logged, error) ELSE logged
            /\ pc' = "returned"
            /\ UNCHANGED error
    /\ UNCHANGED <<products, loaded, ret, countText, env, dataset>>

MaxDataLen == 2      \* records in PRODUCT_DATA

AppRecords ==
    {Record(Num(1), Cat9A), Record(Num(2), Cat4), Record(Num(3), NoCategory),
     [Record(Num(4), Cat9A) EXCEPT !.description = Num(5)]}

Envs ==
    [hasContainer : BOOLEAN, hasCountElement : BOOLEAN, hasConsole : BOOLEAN,
     hasProcess : BOOLEAN, production : BOOLEAN]

InitApp ==
    /\ products = <<>>
    /\ loaded = [jsonData |-> <<>>, replaced |-> FALSE]
    /\ ret = NoCall
    /\ container = InitialView
    /\ countText = InitialCountText
    /\ pc = "loaded"
    /\ error = NoError
    /\ logged = <<>>
    /\ env \in Envs
    /\ dataset \in SeqsUpTo(AppRecords, MaxDataLen)

NextApp ==
    \/ NewProductCatalogApp
    \/ InitShowLoading
    \/ InitLoadFromJson
    \/ InitUpdateProductCount
    \/ InitRenderProducts
    \/ InitHandleError

SpecApp == InitApp /\ [][NextApp]_vars

----------------------------------------------------------------------------
(* Specifications of the index *)

\* the index, loaded with well-formed records
Next ==
    \/ \E jsonData \in IndexInputs : LoadFromJson(jsonData)
    \/ Queries

Spec == Init /\ [][Next]_vars

\* the index, loaded with records that may lack a required field
NextLoad ==
    \/ \E jsonData \in LoadInputs : LoadFromJson(jsonData)
    \/ Queries

SpecLoad == Init /\ [][NextLoad]_vars

----------------------------------------------------------------------------
(* Claims about the index *)

\* product was built from the raw record data, field by field
BuiltFrom(product, data) ==
    /\ product.id = data.id
    /\ product.title = data.title
    /\ product.price = data.price
    /\ product.description = data.description
    /\ product.category.id = data.category.id
    /\ product.category.name = data.category.name
    /\ product.category.slug = data.category.slug

\* ps holds one Product per record of jsonData, in input order
HoldsExactly(ps, jsonData) ==
    /\ Len(ps) = Len(jsonData)
    /\ \A i \in 1..Len(jsonData) : BuiltFrom(ps[i], jsonData[i])

MissingRequired(data) ==
    \/ data.id.type = "undefined"
    \/ data.title.type = "undefined"
    \/ data.price.type = "undefined"
    \/ data.category.type = "undefined"

\* C3 as stated: a load whose input has a record without id, title, price or
\* category fails with a MalformedRecordError and builds no Product from it.
C3_MalformedRecordError ==
    (ret.op = "loadFromJson" /\ \E i \in 1..Len(ret.arg) : MissingRequired(ret.arg[i]))
        => ret.threw = "MalformedRecordError"

\* C3 amended: a load fails, with a TypeError, exactly when some record of the
\* input has no category; a record without id, title or price loads normally
\* into a Product whose field is undefined.
C3_FailsOnlyWithoutCategory ==
    ret.op = "loadFromJson" =>
        /\ ret.threw \in {"none", "TypeError"}
        /\ ret.threw = "TypeError" <=>
               \E i \in 1..Len(ret.arg) : ret.arg[i].category.type = "undefined"
        /\ ret.threw = "none" =>
               /\ HoldsExactly(ret.value, ret.arg)
               /\ products = ret.value

C3_Witness ==
    /\ ret.op = "loadFromJson"
    /\ ret.threw = "none"
    /\ \E i \in 1..Len(ret.arg) : ret.arg[i].id.type = "undefined" /\ products[i].id = Undefined
    /\ \E i \in 1..Len(ret.arg) : ret.arg[i].price.type = "undefined"

\* C4: the index holds exactly the Products of the last load's input, in
\* input order, whatever was loaded before; all() and count() report them.
C4_LastLoadOnly ==
    /\ HoldsExactly(products, loaded.jsonData)
    /\ ret.op = "loadFromJson" => HoldsExactly(ret.value, loaded.jsonData)
    /\ ret.op = "getAllProducts" => HoldsExactly(ret.value, loaded.jsonData)
    /\ ret.op = "getProductCount" => ret.value = Len(loaded.jsonData)

C4_Witness ==
    /\ loaded.replaced
    /\ ret.op = "getProductCount"
    /\ ret.value = 2
    /\ products[1].id = Num(3)
    /\ products[2].id = Num(1)

\* the position of the first product that carries category id
FirstWithCategory(ps, id) ==
    CHOOSE i \in 1..Len(ps) :
        /\ ps[i].category.id = id
        /\ \A j \in 1..(i - 1) : ps[j].category.id # id

\* C5: uniqueCategories returns one Category per distinct category id, each
\* the Category of the first Product that carries the id, ordered by first
\* occurrence; ids 1,2,3 with category ids 9,9,4 give 9 then 4.
C5_UniqueCategories ==
    ret.op = "getUniqueCategories" =>
        LET cs == ret.value IN
        /\ \A i \in 1..Len(products) : \E k \in 1..Len(cs) : cs[k].id = products[i].category.id
        /\ \A k \in 1..Len(cs) :
               /\ \E i \in 1..Len(products) : products[i].category.id = cs[k].id
               /\ cs[k] = products[FirstWithCategory(products, cs[k].id)].category
        /\ \A k, l \in 1..Len(cs) :
               k < l => FirstWithCategory(products, cs[k].id) < FirstWithCategory(products, cs[l].id)
        /\ (/\ Len(products) = 3
            /\ [i \in 1..3 |-> products[i].id] = <<Num(1), Num(2), Num(3)>>
            /\ [i \in 1..3 |-> products[i].category.id] = <<Num(9), Num(9), Num(4)>>)
               => [k \in 1..Len(cs) |-> cs[k].id] = <<Num(9), Num(4)>>

C5_Witness ==
    /\ ret.op = "getUniqueCategories"
    /\ Len(products) = 3
    /\ [i \in 1..3 |-> products[i].id] = <<Num(1), Num(2), Num(3)>>
    /\ [i \in 1..3 |-> products[i].category.id] = <<Num(9), Num(9), Num(4)>>
    /\ products[1].category # products[2].category
    /\ Len(ret.value) = 2
    /\ ret.value[1] = products[1].category

\* the positions of the products whose category slug is slug
Matching(ps, slug) == {i \in 1..Len(ps) : ps[i].category.slug = slug}

\* the k-th smallest element of a set of positions
Kth(S, k) == CHOOSE i \in S : Cardinality({j \in S : j <= i}) = k

\* C6: filterByCategory returns exactly the Products whose category slug
\* equals the argument, in index order, without error, empty when none
\* matches, and the index still holds what was loaded.
C6_FilterByCategory ==
    ret.op = "filterByCategory" =>
        LET hits == Matching(products, ret.arg) IN
        /\ ret.threw = "none"
        /\ Len(ret.value) = Cardinality(hits)
        /\ \A k \in 1..Len(ret.value) : ret.value[k] = products[Kth(hits, k)]
        /\ hits = {} => ret.value = <<>>
        /\ HoldsExactly(products, loaded.jsonData)

C6_Witness ==
    /\ ret.op = "filterByCategory"
    /\ Len(products) = 3
    /\ Matching(products, ret.arg) = {1, 3}
    /\ products[1] # products[3]
    /\ ret.value = <<products[1], products[3]>>

\* C7: findById returns the first Product in load order whose id equals the
\* argument, also among several with that id, and undefined when there is
\* none, without error.
C7_FindById ==
    ret.op = "findById" =>
        LET hits == {i \in 1..Len(products) : products[i].id = ret.arg} IN
        /\ ret.threw = "none"
        /\ hits = {} => ret.value = Undefined
        /\ hits # {} => ret.value = products[Kth(hits, 1)]

C7_Witness ==
    /\ ret.op = "findById"
    /\ \E i, j \in 1..Len(products) :
           /\ i < j
           /\ products[i].id = ret.arg
           /\ products[j].id = ret.arg
           /\ products[i] # products[j]
           /\ \A h \in 1..(i - 1) : products[h].id # ret.arg
           /\ ret.value = products[i]

----------------------------------------------------------------------------
(* Claims about Product and the card *)

MarkupSignificant(text) == \E i \in 1..Len(text) : text[i] \in {"<", ">", "&", Quote}

\* C1 as stated: a title with markup-significant characters is read back as
\* literal text in both places of the card, the alt attribute and the h2
\* body, and closes neither.
C1_TitleIsLiteral ==
    (/\ ret.op = "createProductCardHtml"
     /\ ret.threw = "none"
     /\ ret.arg.title.type = "string"
     /\ MarkupSignificant(ret.arg.title.str))
        => /\ LiteralInAttribute(ret.value.alt, ret.arg.title.str)
           /\ LiteralInContent(ret.value.title, ret.arg.title.str)

\* C2 as stated: an id that is not a number adds no markup through the
\* data-product-id attribute or the ID text, and the price hole holds a
\* formatted number.
C2_IdAddsNoMarkup ==
    (ret.op = "createProductCardHtml" /\ ret.threw = "none")
        => /\ ret.arg.id.type # "number" =>
                  /\ LiteralInAttribute(ret.value.productId, TemplateString(ret.arg.id))
                  /\ LiteralInContent(ret.value.idText, TemplateString(ret.arg.id))
           /\ ~OpensTag(ret.value.price)

\* C8 as stated: a non-empty images gives its first element, whatever it
\* is; an empty or absent images gives the placeholder.
C8_FirstElementWhateverItIs ==
    ret.op = "getPrimaryImage" =>
        IF ret.arg.images.type = "array" /\ Len(ret.arg.images.items) > 0
        THEN ret.value = ret.arg.images.items[1]
        ELSE ret.value = Str(<<"https://placehold.co/600x400?text=No+Image">>)

\* C8 amended: a non-empty images whose first element is truthy (a
\* non-empty string) gives that element; an images that is empty or absent,
\* or whose first element is falsy (the empty string), gives the placeholder.
C8_FirstTruthyElement ==
    ret.op = "getPrimaryImage" =>
        IF /\ ret.arg.images.type = "array"
           /\ Len(ret.arg.images.items) > 0
           /\ ret.arg.images.items[1] # Str(<<>>)
        THEN ret.value = ret.arg.images.items[1]
        ELSE ret.value = Str(<<"https://placehold.co/600x400?text=No+Image">>)

C8_Witness ==
    /\ ret.op = "getPrimaryImage"
    /\ ret.arg.images.type = "array"
    /\ Len(ret.arg.images.items) = 2
    /\ ret.arg.images.items[1] = Str(<<>>)
    /\ ret.arg.images.items[2] # Str(<<>>)
    /\ ret.value = Str(<<"https://placehold.co/600x400?text=No+Image">>)

\* C9: shortDescription(maxLength), maxLength >= 0: the fixed text for an
\* absent or empty description; the description itself when it is no longer
\* than maxLength; otherwise its first maxLength characters and '...'.
C9_ShortDescription ==
    (ret.op = "getShortDescription" /\ ret.arg.data.description.type # "number") =>
        LET d == ret.arg.data.description
            n == ret.arg.maxLength
        IN  /\ ret.threw = "none"
            /\ (d.type = "undefined" \/ d.str = <<>>) =>
                   ret.value = Str(<<"No description available">>)
            /\ (d.type = "string" /\ d.str # <<>> /\ Len(d.str) <= n) => ret.value = d
            /\ (d.type = "string" /\ Len(d.str) > n) =>
                   /\ ret.value.type = "string"
                   /\ Len(ret.value.str) = n + 3
                   /\ \A i \in 1..n : ret.value.str[i] = d.str[i]
                   /\ \A i \in (n + 1)..(n + 3) : ret.value.str[i] = "."

C9_Witness ==
    /\ ret.op = "getShortDescription"
    /\ ret.arg.maxLength = 0
    /\ ret.arg.data.description.type = "string"
    /\ Len(ret.arg.data.description.str) = 2
    /\ ret.value = Str(<<".", ".", ".">>)

----------------------------------------------------------------------------
(* Claims about init *)

\* C10 as stated: a failure of load or of render during init ends with the
\* container in the Error view showing the fixed message, whatever the
\* error, and no exception leaves init, also without a global process.
C10_FailuresHandledInInit ==
    /\ pc # "threw"
    /\ (pc = "returned" /\ error.name # "none") =>
           /\ container.view = "Error"
           /\ container.message = <<"Có lỗi xảy ra khi tải dữ liệu sản phẩm">>

\* C11: without the container element the construction of the renderer, and
\* so of the controller, fails before anything is rendered: init is not run,
\* load is not called, container and count readout are not written.
C11_ContainerNotFound ==
    ~env.hasContainer =>
        /\ pc \in {"loaded", "uncaught"}
        /\ pc = "uncaught" => error = [name |-> "Error", by |-> "ProductRenderer"]
        /\ products = <<>>
        /\ loaded.jsonData = <<>>
        /\ container = InitialView
        /\ countText = InitialCountText
        /\ logged = <<>>

C11_Witness ==
    /\ ~env.hasContainer
    /\ env.hasCountElement
    /\ pc = "uncaught"
    /\ Len(dataset) = 2

\* C12: renderList of an empty sequence leaves exactly the fixed 'no
\* results' message and no card (an empty dataset ends Empty with count 0,
\* not Error); of a non-empty sequence, exactly one card per product in
\* input order, written at once: the container never holds some of the
\* cards or any of the content it had before.
C12_RenderList ==
    /\ container.view = "Populated" =>
           /\ Len(container.cards) = Len(dataset)
           /\ Len(dataset) > 0
           /\ container.message = <<>>
           /\ \A i \in 1..Len(dataset) :
                  /\ container.cards[i].productId = TemplateString(dataset[i].id)
                  /\ container.cards[i].idText = TemplateString(dataset[i].id)
                  /\ DecodeText(container.cards[i].title) = dataset[i].title.str
    /\ container.view = "Empty" =>
           /\ container.cards = <<>>
           /\ container.message = <<"Không có sản phẩm nào">>
    /\ (pc \in {"returned", "threw"} /\ dataset = <<>>) =>
           /\ container.view = "Empty"
           /\ pc = "returned"
           /\ error.name = "none"
           /\ products = <<>>
           /\ env.hasCountElement => countText = <<"0", " sản phẩm">>
    /\ (pc = "returned" /\ error.name = "none" /\ dataset # <<>>) =>
           container.view = "Populated"

C12_Witness ==
    /\ pc = "returned"
    /\ container.view = "Populated"
    /\ Len(container.cards) = 2
    /\ container.cards[1].productId = <<"2">>
    /\ container.cards[2].productId = <<"1">>

\* what the dataset makes of load and of render
LoadReturns == \A i \in 1..Len(dataset) : dataset[i].category.type # "undefined"
RenderCompletes ==
    \A i \in 1..Len(dataset) :
        dataset[i].description.type = "number" => dataset[i].description.num = 0

\* C13: the container shows Loading before load is called and until the
\* run is decided; render runs only after load returned, on the sequence
\* load returned; once init has begun the container shows one of Loading,
\* Populated, Empty, Error; when init has finished, normally or not, the
\* view is Populated iff load returned a non-empty sequence and render
\* completed, Empty iff load returned an empty sequence, Error otherwise.
C13_ViewStateFlow ==
    /\ pc \in {"loaded", "uncaught", "showLoading"} => container.view = "Initial"
    /\ pc \in {"loadFromJson", "updateProductCount", "renderProducts", "catch"} =>
           container.view = "Loading"
    /\ pc = "loadFromJson" => (products = <<>> /\ error.name = "none")
    /\ pc \in {"updateProductCount", "renderProducts"} =>
           /\ LoadReturns
           /\ HoldsExactly(products, dataset)
    /\ pc = "catch" => (~LoadReturns \/ ~RenderCompletes)
    /\ pc \in {"returned", "threw"} =>
           /\ container.view \in {"Populated", "Empty", "Error"}
           /\ container.view = "Populated" <=>
                  (LoadReturns /\ dataset # <<>> /\ RenderCompletes)
           /\ container.view = "Empty" <=> (LoadReturns /\ dataset = <<>>)
           /\ container.view = "Error" <=> (~LoadReturns \/ ~RenderCompletes)

C13_Witness ==
    /\ pc = "threw"
    /\ container.view = "Error"
    /\ LoadReturns
    /\ ~RenderCompletes
    /\ Len(products) = 2

\* C14 as stated: a run of init that ends in the Error view, load or render
\* having failed, leaves the count readout as it was before init; a run
\* that ends Populated or Empty shows the number of products load returned,
\* when the readout element exists.
C14_CountOnlyOnSuccess ==
    pc \in {"returned", "threw"} =>
        /\ container.view = "Error" => countText = InitialCountText
        /\ (container.view \in {"Populated", "Empty"} /\ env.hasCountElement) =>
               countText = Digits(Len(dataset)) \o <<" sản phẩm">>
        /\ ~env.hasCountElement => countText = InitialCountText

----------------------------------------------------------------------------
(* Claims about a load that fails *)

\* C15: a load that fails part-way leaves the index as it was before the
\* call: the step changes neither the index nor the record of the last
\* load that returned, so every query answers as before, and the index
\* holds no Product of the failed input beyond what it held already.
C15_FailedLoadLeavesIndex ==
    [][(ret'.op = "loadFromJson" /\ ret'.threw # "none") =>
          /\ products' = products
          /\ loaded' = loaded
          /\ HoldsExactly(products', loaded.jsonData)]_vars

C15_Witness ==
    /\ ret.op = "loadFromJson"
    /\ ret.threw = "TypeError"
    /\ Len(ret.arg) = 2
    /\ ret.arg[1].category.type = "object"
    /\ ret.arg[2].category.type = "undefined"
    /\ Len(products) = 2
    /\ products[1].id # ret.arg[1].id

====
